---- MODULE Spec2Model ----
(***************************************************************************)
(* Model of circus.arbiter.Arbiter: the watcher tables, the socket         *)
(* registry, the alive flag and the configuration reconciler               *)
(* (reload_from_config).                                                   *)
(***************************************************************************)
EXTENDS Integers, Sequences, FiniteSets, TLC

VARIABLES watchers, names, sockets, alive, cfg, initialized, last, adds, addr,
          procs, reap, tick, stopper, remover, lock, hist

\* the children of the watchers and the progress of a reap_processes call
reaping == <<procs, reap>>

\* the calls that run in threads of their own: where the manage_watchers
\* tick, a stop() and a rm_watcher() stand, who holds Arbiter._lock, and the
\* calls they have made on watchers so far
threads == <<tick, stopper, remover, lock, hist>>

vars == <<watchers, names, sockets, alive, cfg, initialized, last, adds, addr,
          reaping, threads>>

(* ---------------- bounds ---------------- *)

\* add_watcher is called at most this many times in one run
MaxAdds == 1

\* the child pids are 1..MaxPid
MaxPid == 2

\* os.waitpid is called at most this many times in one reap_processes call
MaxWaits == 3

\* the periodic callback runs manage_watchers at most this many times
MaxTicks == 2

(* ---------------- value domains ---------------- *)

\* str.lower() on the watcher and socket names of the model
Lower(n) == IF n = "A" THEN "a" ELSE n

\* watcher objects that were not built from a config entry carry no snapshot
NoCfg == <<"nocfg">>

\* a cmd is modelled by the set of markers circus.sockets.<x> it contains;
\* the test  'circus.sockets.%s' % n.lower() in w.cmd
Uses(cmd, n) == Lower(n) \in cmd

\* Watcher.cfg2dict: normalises a config entry to a comparable value
WatcherCfg2Dict(e) == <<e.name, e.cmd, e.numprocesses, e.priority>>

\* CircusSocket.cfg2dict: normalises a socket entry to a comparable value
SocketCfg2Dict(e) == <<e.name, e.port>>

\* Watcher.load_from_config / Watcher(...): a new, not yet started watcher
WatcherLoadFromConfig(e, id) ==
  [id |-> id, name |-> e.name, cmd |-> e.cmd, numprocesses |-> e.numprocesses,
   priority |-> e.priority, stopped |-> TRUE, cfg |-> WatcherCfg2Dict(e)]

\* CircusSocket.load_from_config: a new, not yet bound socket
SocketLoadFromConfig(e) ==
  [name |-> e.name, cfg |-> SocketCfg2Dict(e), bound |-> FALSE]

\* the [circus] section: httpd may be left out (default False)
PlainSection == [stats_endpoint |-> "none", httpd |-> "absent"]

ArbiterSections ==
  { PlainSection,
    [stats_endpoint |-> "none", httpd |-> "false"],
    [stats_endpoint |-> "tcp",  httpd |-> "true"] }

\* the parsed [watcher:...] sections
Test1 == [name |-> "a", cmd |-> {}, numprocesses |-> 1, priority |-> 0]
Test1Two == [name |-> "a", cmd |-> {}, numprocesses |-> 2, priority |-> 0]
Test1Upper == [name |-> "A", cmd |-> {}, numprocesses |-> 1, priority |-> 0]
Test2 == [name |-> "b", cmd |-> {"s"}, numprocesses |-> 1, priority |-> 1]

\* the watchers of one file; names are unique within a file, letter case
\* ignored
WatcherSections ==
  { {}, {Test1}, {Test1Two}, {Test2}, {Test1, Test2}, {Test1Two, Test2},
    {Test1Upper}, {Test1Upper, Test2} }

\* the [socket:...] sections of one file
SocketSections ==
  { {}, { [name |-> "s", port |-> 9000] }, { [name |-> "s", port |-> 9001] } }

\* get_config(path): the parsed files. Files with another [circus] section
\* than the plain one hold no watcher and no socket of their own.
Configs ==
  { c \in [circus : ArbiterSections, sockets : SocketSections,
           watchers : WatcherSections] :
      c.circus # PlainSection => c.sockets = {} /\ c.watchers = {} }

(* ---------------- helpers ---------------- *)

RECURSIVE SetToSeqs(_)
\* every order in which a Python set (or a run of equal sort keys) may be walked
SetToSeqs(S) ==
  IF S = {} THEN { <<>> }
  ELSE UNION { { <<x>> \o t : t \in SetToSeqs(S \ {x}) } : x \in S }

Range(s) == { s[i] : i \in 1..Len(s) }

Ids(ws) == { ws[i].id : i \in 1..Len(ws) }

\* the identity of a new object named n: none of the objects in `used`
NewId(n, used) ==
  <<n, CHOOSE k \in 0..Cardinality(used) :
         <<n, k>> \notin used /\ \A j \in 0..(k - 1) : <<n, j>> \in used>>

NoId == <<"-", 0>>

ById(ws, id) == CHOOSE w \in Range(ws) : w.id = id

\* the list is left as it is
RemoveIdKeeps(ws, id) == ws

\* list.remove(w) / del list[list.index(w)]
RemoveId(ws, id) == SelectSeq(ws, LAMBDA w : w.id # id)

\* w.stopped = v on the objects in ids
SetStopped(ws, ids, v) ==
  [i \in 1..Len(ws) |-> IF ws[i].id \in ids THEN [ws[i] EXCEPT !.stopped = v] ELSE ws[i]]

\* dict item assignment d[k] = v
Put(d, k, v) == [x \in DOMAIN d \cup {k} |-> IF x = k THEN v ELSE d[x]]

\* del d[k] / d.pop(k)
Del(d, k) == [x \in DOMAIN d \ {k} |-> d[x]]

\* the record of the most recent call: its result and the calls it made
Call(op, name, res, log) == [op |-> op, name |-> name, res |-> res, log |-> log]

\* one call made on a watcher (w) or on a socket (s)
OnWatcher(ev, id) == [ev |-> ev, w |-> id, s |-> "-"]
OnSocket(ev, n) == [ev |-> ev, w |-> NoId, s |-> n]

Events(kind, order) == [i \in 1..Len(order) |-> OnWatcher(kind, order[i])]

(* ---------------- Arbiter ---------------- *)

\* Arbiter.cfg2dict
Cfg2Dict(c) ==
  [stats_endpoint |-> c.circus.stats_endpoint,
   httpd |-> IF c.circus.httpd = "true" THEN TRUE ELSE FALSE]

\* the watchers Arbiter.__init__ appends to the configured ones
StatsWatcher ==
  [id |-> <<"circusd-stats", 0>>, name |-> "circusd-stats", cmd |-> {},
   numprocesses |-> 1, priority |-> 0, stopped |-> TRUE, cfg |-> NoCfg]

HttpdWatcher ==
  [id |-> <<"circushttpd", 0>>, name |-> "circushttpd", cmd |-> {"circushttpd"},
   numprocesses |-> 1, priority |-> 0, stopped |-> TRUE, cfg |-> NoCfg]

HttpdSocket == [name |-> "circushttpd", cfg |-> NoCfg, bound |-> FALSE]

\* the place of the object id in the address order ad
Pos(ad, id) == CHOOSE i \in 1..Len(ad) : ad[i] = id

\* the address orders after the objects of the list ws came to be: the
\* objects that were there keep their order, a new object may lie anywhere.
\* Only the order of two objects of the same priority is ever looked at, so
\* the objects are kept by priority first and by address within a priority
Allocations(ad, ws) ==
  LET kept == SelectSeq(ad, LAMBDA x : x \in Ids(ws))
      prio(x) == ById(ws, x).priority
      put(s, x) == { SubSeq(s, 1, k) \o <<x>> \o SubSeq(s, k + 1, Len(s)) :
                       k \in { k \in 0..Len(s) :
                                 /\ \A i \in 1..k : prio(s[i]) <= prio(x)
                                 /\ \A i \in (k + 1)..Len(s) : prio(s[i]) >= prio(x) } }
      RECURSIVE all(_, _)
      all(S, new) == IF new = {} THEN S
                     ELSE LET x == CHOOSE y \in new : TRUE
                          IN  all(UNION { put(s, x) : s \in S }, new \ {x})
  IN  all({kept}, Ids(ws) \ Range(ad))

\* the comparison of two (priority, watcher) tuples: a tie on the priority
\* is settled by comparing the watcher objects, which have no comparison of
\* their own and so compare by address
TupleLess(ws, ad, x, y) ==
  \/ ById(ws, x).priority < ById(ws, y).priority
  \/ /\ ById(ws, x).priority = ById(ws, y).priority
     /\ Pos(ad, x) < Pos(ad, y)

\* iter_watchers with a sort on the priority alone: a stable sort keeps
\* watchers of equal priority in list order, with reverse as without
IterWatchersStable(ws, reverse, ad) ==
  { s \in SetToSeqs(Ids(ws)) :
      \A i, j \in 1..Len(s) :
        i < j =>
          LET pi == ById(ws, s[i]).priority
              pj == ById(ws, s[j]).priority
              li == CHOOSE k \in 1..Len(ws) : ws[k].id = s[i]
              lj == CHOOSE k \in 1..Len(ws) : ws[k].id = s[j]
          IN  \/ IF reverse THEN pi > pj ELSE pi < pj
              \/ pi = pj /\ li < lj }

\* Arbiter.iter_watchers: the order sorted() produces for the table ws
IterWatchers(ws, reverse, ad) ==
  LET before(x, y) == IF reverse THEN TupleLess(ws, ad, y, x) ELSE TupleLess(ws, ad, x, y)
      place(x) == 1 + Cardinality({ y \in Ids(ws) : before(y, x) })
  IN  { [i \in 1..Len(ws) |-> CHOOSE x \in Ids(ws) : place(x) = i] }

\* the order of the [watcher:...] sections in the files
FileOrder(S) ==
  LET pick(n) == IF \E e \in S : e.name = n
                 THEN << CHOOSE e \in S : e.name = n >> ELSE << >>
  IN  pick("a") \o pick("A") \o pick("b")

\* Arbiter.load_from_config followed by Arbiter.__init__
LoadFromConfig(c) ==
  LET f == FileOrder(c.watchers)
      w0 == [i \in 1..Len(f) |-> WatcherLoadFromConfig(f[i], <<f[i].name, 0>>)]
      w1 == IF c.circus.stats_endpoint # "none" THEN Append(w0, StatsWatcher) ELSE w0
      w2 == IF c.circus.httpd = "true" THEN Append(w1, HttpdWatcher) ELSE w1
      s0 == { SocketLoadFromConfig(e) : e \in c.sockets }
      s1 == IF c.circus.httpd = "true" THEN s0 \cup {HttpdSocket} ELSE s0
  IN  [watchers |-> w2, sockets |-> s1, cfg |-> Cfg2Dict(c)]

\* no reap_processes call was made yet
NoReap ==
  [pc |-> "idle", map |-> <<>>, waits |-> <<>>, calls |-> <<>>,
   procs0 |-> {}, running0 |-> {}, gone |-> {}]

Init ==
  \E c \in Configs :
    LET a == LoadFromConfig(c) IN
      /\ watchers = a.watchers
      /\ sockets = a.sockets
      /\ cfg = a.cfg
      /\ names = << >>
      /\ alive = TRUE
      /\ initialized = FALSE
      /\ adds = 0
      /\ addr \in Allocations(<<>>, a.watchers)
      /\ procs = {}
      /\ reap = NoReap
      /\ tick = [pc |-> "idle", todo |-> <<>>, n |-> 0]
      /\ stopper = [pc |-> "idle", todo |-> <<>>]
      /\ remover = [pc |-> "idle", id |-> NoId]
      /\ lock = "free"
      /\ hist = <<>>
      /\ last = Call("load_from_config", "-", "ok", <<>>)

RECURSIVE RegisterAll(_, _, _)
\* the loop of Arbiter.initialize
RegisterAll(order, ws, nm) ==
  IF order = <<>> THEN nm
  ELSE RegisterAll(Tail(order), ws, Put(nm, Lower(ById(ws, Head(order)).name), Head(order)))

\* Arbiter.initialize
Initialize ==
  /\ ~initialized
  /\ \E order \in IterWatchers(watchers, TRUE, addr) :
       /\ names' = RegisterAll(order, watchers, names)
       /\ last' = Call("initialize", "-", "ok", Events("initialize", order))
  /\ sockets' = { [s EXCEPT !.bound = TRUE] : s \in sockets }
  /\ initialized' = TRUE
  /\ UNCHANGED <<watchers, alive, cfg, adds, addr, reaping, threads>>

\* the names add_watcher and rm_watcher are called with
CallNames == {"a", "A", "b", ""}

\* the membership test of add_watcher:  name in self._watchers_names
NameTaken(name, nm) == name \in DOMAIN nm

\* Arbiter.add_watcher, called at most bound times in one run
AddWatcherWithin(name, bound) ==
  /\ initialized
  /\ adds < bound
  /\ adds' = adds + 1
  /\ IF NameTaken(name, names)
     THEN /\ last' = Call("add_watcher", name, "AlreadyExist", <<>>)
          /\ UNCHANGED <<watchers, names, addr>>
     ELSE IF name = ""
     THEN /\ last' = Call("add_watcher", name, "ok", <<>>)
          /\ UNCHANGED <<watchers, names, addr>>
     ELSE LET id == NewId(name, Ids(watchers))
              w == [id |-> id, name |-> name, cmd |-> {}, numprocesses |-> 1,
                    priority |-> 0, stopped |-> TRUE, cfg |-> NoCfg]
          IN  /\ watchers' = Append(watchers, w)
              /\ names' = Put(names, Lower(name), id)
              /\ addr' \in Allocations(addr, Append(watchers, w))
              /\ last' = Call("add_watcher", name, "ok", << OnWatcher("initialize", id) >>)
  /\ UNCHANGED <<sockets, alive, cfg, initialized, reaping, threads>>

\* Arbiter.add_watcher
AddWatcher(name) == AddWatcherWithin(name, MaxAdds)

\* Arbiter.rm_watcher
RmWatcher(name) ==
  /\ initialized
  /\ IF name \notin DOMAIN names
     THEN /\ last' = Call("rm_watcher", name, "KeyError", <<>>)
          /\ UNCHANGED <<watchers, names, addr>>
     ELSE LET id == names[name] IN
          /\ names' = Del(names, name)
          /\ watchers' = RemoveId(watchers, id)
          /\ addr' = SelectSeq(addr, LAMBDA x : x # id)
          /\ last' = Call("rm_watcher", name, "ok", << OnWatcher("stop", id) >>)
  /\ UNCHANGED <<sockets, alive, cfg, initialized, adds, reaping, threads>>

\* Arbiter.get_socket
GetSocket(socks, n) == CHOOSE s \in socks : s.name = n

\* Arbiter.get_socket_config
GetSocketConfig(c, n) == CHOOSE e \in c.sockets : e.name = n

\* Arbiter.get_watcher_config
GetWatcherConfig(c, n) == CHOOSE e \in c.watchers : e.name = n

\* the test of reload_from_config that sends it to load_from_config
ArbiterChanged(c, acfg) == Cfg2Dict(c) # acfg

\* reload_from_config, "get changed sockets": the sockets kept by name whose
\* normalised config differs from the running one
ChangedSocketNames(socks, c) ==
  LET current == { s.name : s \in socks }
      new == { e.name : e \in c.sockets }
      maybechanged == current \ (current \ new)
  IN  { n \in maybechanged :
          SocketCfg2Dict(GetSocketConfig(c, n)) # GetSocket(socks, n).cfg }

\* reload_from_config, "get deleted sockets": the names of the watchers whose
\* cmd uses a socket that is being closed and removed
WatcherNamesWithDeletedSocket(ws, deleted) ==
  { w.name : w \in { x \in Range(ws) : \E n \in deleted : Uses(x.cmd, n) } }

\* the test  watcher_names_with_deleted_socket not in new_watcher_names :
\* the set of names is looked up as one element among the names, which are
\* strings, so it is never found
NotInNames(S, T) == TRUE

\* ReloadSockets without self.sockets.remove(s): a closed socket stays registered
ReloadSocketsNoRemove(socks, c) ==
  LET current == { s.name : s \in socks }
      new == { e.name : e \in c.sockets }
  IN  socks \cup { [SocketLoadFromConfig(GetSocketConfig(c, n)) EXCEPT !.bound = TRUE] :
                     n \in new \ current }

\* the sockets after "get deleted sockets" and "get added sockets"
ReloadSockets(socks, c) ==
  LET current == { s.name : s \in socks }
      new == { e.name : e \in c.sockets }
  IN  { s \in socks : s.name \notin current \ new }
      \cup { [SocketLoadFromConfig(GetSocketConfig(c, n)) EXCEPT !.bound = TRUE] :
               n \in new \ current }

\* ChangedWatcherNames with the comparison dropped: every kept watcher is replaced
ChangedWatcherNamesAll(ws, nm, c, maybechanged) == maybechanged

\* reload_from_config, "get changed watchers": the kept names whose
\* normalised config differs from the running watcher's snapshot
ChangedWatcherNames(ws, nm, c, maybechanged) ==
  { n \in maybechanged :
      WatcherCfg2Dict(GetWatcherConfig(c, n)) # ById(ws, nm[n]).cfg }

RECURSIVE DeleteWatchers(_, _, _, _)
\* reload_from_config, "get deleted watchers", walked in the order `order`
DeleteWatchers(order, ws, nm, log) ==
  IF order = <<>> THEN [ws |-> ws, nm |-> nm, log |-> log, res |-> "ok"]
  ELSE IF Head(order) \notin DOMAIN nm
  THEN [ws |-> ws, nm |-> nm, log |-> log, res |-> "KeyError"]
  ELSE LET id == nm[Head(order)]
           w == ById(ws, id)
       IN  DeleteWatchers(Tail(order), RemoveId(ws, id), Del(nm, Lower(w.name)),
                          log \o << OnWatcher("stop", id), OnWatcher("remove", id) >>)

RECURSIVE AddWatchers(_, _, _, _, _, _)
\* reload_from_config, "get added watchers", walked in the order `order`
AddWatchers(c, order, ws, nm, log, used) ==
  IF order = <<>> THEN [ws |-> ws, nm |-> nm, log |-> log, res |-> "ok"]
  ELSE LET id == NewId(Head(order), used)
           w == [WatcherLoadFromConfig(GetWatcherConfig(c, Head(order)), id)
                   EXCEPT !.stopped = FALSE]
       IN  AddWatchers(c, Tail(order), Append(ws, w), Put(nm, Lower(w.name), id),
                       log \o << OnWatcher("initialize", id), OnWatcher("start", id),
                                 OnWatcher("add", id) >>,
                       used \cup {id})

CloseEvents(order) ==
  [i \in 1..(2 * Len(order)) |->
     IF i % 2 = 1 THEN OnSocket("close", order[(i + 1) \div 2])
     ELSE OnSocket("remove", order[i \div 2])]

BindEvents(order) ==
  [i \in 1..(2 * Len(order)) |->
     IF i % 2 = 1 THEN OnSocket("bind_and_listen", order[(i + 1) \div 2])
     ELSE OnSocket("append", order[i \div 2])]

Outcome(ws, nm, socks, acfg, ad, path, res, log) ==
  [watchers |-> ws, names |-> nm, sockets |-> socks, cfg |-> acfg, addr |-> ad,
   path |-> path, res |-> res, log |-> log]

\* the orphaned-socket test placed after the "get deleted watchers" loop
RaiseOrphanedLate(ws, nm, socks1, acfg, ad, logs1, deleted) ==
  { LET d == DeleteWatchers(do, ws, nm, log1)
    IN  Outcome(d.ws, d.nm, socks1, acfg, SelectSeq(ad, LAMBDA x : x \in Ids(d.ws)),
                "diff", "ValueError", d.log) :
      log1 \in logs1, do \in SetToSeqs(deleted) }

\* raise ValueError('Watchers %s uses a socket which is deleted'): the call
\* ends where the socket loops and the re-initialisation left the arbiter
RaiseOrphaned(ws, nm, socks1, acfg, ad, logs1, deleted) ==
  { Outcome(ws, nm, socks1, acfg, ad, "diff", "ValueError", log1) : log1 \in logs1 }

\* Arbiter.reload_from_config(c) called on the arbiter (ws, nm, socks, acfg):
\* every state and result the call may end in
ReloadOutcomes(ws, nm, socks, acfg, ad, c) ==
  IF ArbiterChanged(c, acfg)
  THEN \* return self.load_from_config(...): a new arbiter is built and
       \* returned, this one is left as it is
       { Outcome(ws, nm, socks, acfg, ad, "full", "ok", <<>>) }
  ELSE IF ChangedSocketNames(socks, c) # {}
  THEN \* for w in self.iter_watchers: a bound method is not iterable
       { Outcome(ws, nm, socks, acfg, ad, "diff", "TypeError", <<>>) }
  ELSE
    LET current_socket_names == { s.name : s \in socks }
        new_socket_names == { e.name : e \in c.sockets }
        added_socket_names == new_socket_names \ current_socket_names
        deleted_socket_names == current_socket_names \ new_socket_names
        watcher_names_with_deleted_socket ==
          WatcherNamesWithDeletedSocket(ws, deleted_socket_names)
        socks1 == ReloadSockets(socks, c)
        current_watcher_names == { w.name : w \in Range(ws) }
        new_watcher_names == { e.name : e \in c.watchers }
        added0 == new_watcher_names \ current_watcher_names
        deleted0 == current_watcher_names \ new_watcher_names
        maybechanged_watcher_names == current_watcher_names \ deleted0
        logs1 == { CloseEvents(dso) \o BindEvents(aso) \o Events("initialize", io) :
                     dso \in SetToSeqs(deleted_socket_names),
                     aso \in SetToSeqs(added_socket_names),
                     io \in (IF added_socket_names \cup deleted_socket_names # {}
                             THEN IterWatchers(ws, TRUE, ad) ELSE { <<>> }) }
    IN
    IF /\ watcher_names_with_deleted_socket # {}
       /\ NotInNames(watcher_names_with_deleted_socket, new_watcher_names)
    THEN RaiseOrphaned(ws, nm, socks1, acfg, ad, logs1, deleted0)
    ELSE IF \E n \in maybechanged_watcher_names : n \notin DOMAIN nm
    THEN \* get_watcher(n) looks the raw name up
         { Outcome(ws, nm, socks1, acfg, ad, "diff", "KeyError", log1) : log1 \in logs1 }
    ELSE
      \* w.cfg of a watcher that was not loaded from a config entry: either
      \* the attribute is missing, or it differs from every entry
      (IF \E n \in maybechanged_watcher_names : ById(ws, nm[n]).cfg = NoCfg
       THEN { Outcome(ws, nm, socks1, acfg, ad, "diff", "AttributeError", log1) :
                log1 \in logs1 }
       ELSE {})
      \cup
      LET changed == ChangedWatcherNames(ws, nm, c, maybechanged_watcher_names)
          deleted_watcher_names == deleted0 \cup changed
          added_watcher_names == added0 \cup changed
          finish(log1, do, ao) ==
            LET d == DeleteWatchers(do, ws, nm, log1)
                a == IF d.res = "ok"
                     THEN AddWatchers(c, ao, d.ws, d.nm, d.log, Ids(ws))
                     ELSE d
            IN  Outcome(a.ws, a.nm, socks1, acfg, ad, "diff", a.res, a.log)
          \* the watcher objects made by the add loop are allocated
          allocated(o) ==
            { [o EXCEPT !.addr = a2] : a2 \in Allocations(ad, o.watchers) }
      IN  UNION { allocated(finish(log1, do, ao)) :
                    log1 \in logs1,
                    do \in SetToSeqs(deleted_watcher_names),
                    ao \in SetToSeqs(added_watcher_names) }

\* Arbiter.reload_from_config
ReloadFromConfig(c) ==
  /\ initialized
  /\ \E o \in ReloadOutcomes(watchers, names, sockets, cfg, addr, c) :
       /\ watchers' = o.watchers
       /\ names' = o.names
       /\ sockets' = o.sockets
       /\ cfg' = o.cfg
       /\ addr' = o.addr
       /\ last' = Call("reload_from_config", o.path, o.res, o.log)
  /\ UNCHANGED <<alive, initialized, adds, reaping, threads>>

\* stop_watchers without the assignment self.alive = False
StopWatchersResultKeepsAlive(ws, al, stop_alive, order) ==
  IF ~al THEN [watchers |-> ws, alive |-> al, log |-> <<>>]
  ELSE [watchers |-> SetStopped(ws, Ids(ws), TRUE),
        alive |-> al,
        log |-> Events("stop", order)]

\* Arbiter.stop_watchers: the table and the flag it leaves, and the calls made
StopWatchersResult(ws, al, stop_alive, order) ==
  IF ~al THEN [watchers |-> ws, alive |-> al, log |-> <<>>]
  ELSE [watchers |-> SetStopped(ws, Ids(ws), TRUE),
        alive |-> IF stop_alive THEN FALSE ELSE al,
        log |-> Events("stop", order)]

\* Arbiter.start_watchers
StartWatchersResult(ws, order) ==
  [watchers |-> SetStopped(ws, Ids(ws), FALSE), log |-> Events("start", order)]

\* Arbiter.stop_watchers()
StopWatchers ==
  /\ initialized
  /\ \E order \in IterWatchers(watchers, FALSE, addr) :
       LET r == StopWatchersResult(watchers, alive, FALSE, order) IN
         /\ watchers' = r.watchers
         /\ alive' = r.alive
         /\ last' = Call("stop_watchers", "-", "ok", r.log)
  /\ UNCHANGED <<names, sockets, cfg, initialized, adds, addr, reaping, threads>>

\* Arbiter.start_watchers()
StartWatchers ==
  /\ initialized
  /\ \E order \in IterWatchers(watchers, TRUE, addr) :
       LET r == StartWatchersResult(watchers, order) IN
         /\ watchers' = r.watchers
         /\ last' = Call("start_watchers", "-", "ok", r.log)
  /\ UNCHANGED <<names, sockets, alive, cfg, initialized, adds, addr, reaping, threads>>

\* Arbiter.restart()
Restart ==
  /\ initialized
  /\ \E o1 \in IterWatchers(watchers, FALSE, addr) : \E o2 \in IterWatchers(watchers, TRUE, addr) :
       LET r1 == StopWatchersResult(watchers, alive, FALSE, o1)
           r2 == StartWatchersResult(r1.watchers, o2)
       IN  /\ watchers' = r2.watchers
           /\ alive' = r1.alive
           /\ last' = Call("restart", "-", "ok", r1.log \o r2.log)
  /\ UNCHANGED <<names, sockets, cfg, initialized, adds, addr, reaping, threads>>

\* Arbiter.stop()
Stop ==
  /\ initialized
  /\ \E order \in IterWatchers(watchers, FALSE, addr) :
       LET r == IF alive THEN StopWatchersResult(watchers, alive, TRUE, order)
                ELSE [watchers |-> watchers, alive |-> alive, log |-> <<>>]
       IN  /\ watchers' = r.watchers
           /\ alive' = r.alive
           /\ last' = Call("stop", "-", "ok", r.log \o << OnSocket("close_all", "-") >>)
  /\ sockets' = { [s EXCEPT !.bound = FALSE] : s \in sockets }
  /\ UNCHANGED <<names, cfg, initialized, adds, addr, reaping, threads>>

\* Arbiter.manage_watchers()
ManageWatchers ==
  /\ initialized
  /\ IF ~alive
     THEN last' = Call("manage_watchers", "-", "ok", <<>>)
     ELSE \E order \in IterWatchers(watchers, TRUE, addr) :
            last' = Call("manage_watchers", "-", "ok",
                         << OnSocket("reap_processes", "-") >>
                           \o Events("manage_processes", order))
  /\ UNCHANGED <<watchers, names, sockets, alive, cfg, initialized, adds, addr, reaping, threads>>

\* Arbiter.start(), up to the entry into the event loop: initialize(), then
\* the start loop
Start ==
  /\ ~initialized
  /\ \E order \in IterWatchers(watchers, TRUE, addr) :
       LET r == StartWatchersResult(watchers, order) IN
         /\ names' = RegisterAll(order, watchers, names)
         /\ watchers' = r.watchers
         /\ last' = Call("start", "-", "ok", Events("initialize", order) \o r.log)
  /\ sockets' = { [s EXCEPT !.bound = TRUE] : s \in sockets }
  /\ initialized' = TRUE
  /\ UNCHANGED <<alive, cfg, adds, addr, reaping, threads>>

\* Arbiter.reload(graceful)
Reload ==
  /\ initialized
  /\ \E order \in IterWatchers(watchers, TRUE, addr) :
       last' = Call("reload", "-", "ok", Events("reload", order))
  /\ UNCHANGED <<watchers, names, sockets, alive, cfg, initialized, adds, addr, reaping, threads>>

\* the controller's table commands and reloadconfig
Next ==
  \/ Initialize
  \/ \E n \in CallNames : AddWatcher(n)
  \/ \E n \in CallNames : RmWatcher(n)
  \/ \E c \in Configs : ReloadFromConfig(c)

Spec == Init /\ [][Next]_vars

\* the same commands, with one more add_watcher in a run
NextDeep ==
  \/ Initialize
  \/ \E n \in CallNames : AddWatcherWithin(n, MaxAdds + 1)
  \/ \E n \in CallNames : RmWatcher(n)
  \/ \E c \in Configs : ReloadFromConfig(c)

DeepSpec == Init /\ [][NextDeep]_vars

\* the lifecycle calls: the periodic tick, stop, and the watcher commands
NextLife ==
  \/ Initialize
  \/ Start
  \/ Reload
  \/ StopWatchers
  \/ StartWatchers
  \/ Restart
  \/ Stop
  \/ ManageWatchers

LifeSpec == Init /\ [][NextLife]_vars

(* ---------------- reap_processes ---------------- *)

Pids == 1..MaxPid

\* the exit statuses waitpid reports
Statuses == {0, 9}

\* what os.waitpid(-1, os.WNOHANG) may do: return (pid, status) of an exited
\* child, return (0, 0), or raise OSError with an errno
WaitResults ==
  [kind : {"pid"}, pid : Pids, status : Statuses, errno : {"-"}]
  \cup { [kind |-> "none", pid |-> 0, status |-> 0, errno |-> "-"] }
  \cup [kind : {"error"}, pid : {0}, status : {0}, errno : {"EAGAIN", "ECHILD", "EIO"}]

\* a watcher spawns a child: the pid is entered in watcher.processes
Spawn(pid) ==
  /\ initialized
  /\ reap.pc # "loop"
  /\ pid \notin { pr[2] : pr \in procs } \cup reap.gone
  /\ \E id \in Ids(watchers) :
       /\ ~ById(watchers, id).stopped
       /\ procs' = procs \cup { <<id, pid>> }
  /\ UNCHANGED <<watchers, names, sockets, alive, cfg, initialized, last, adds, addr, reap, threads>>

\* every watcher enters the pid map
InPidMapAll(w) == TRUE

\* the test  if not watcher.stopped  of the map loop
InPidMap(w) == ~w.stopped

RECURSIVE WatchersPids(_, _, _, _)
\* the loop that maps pids to watchers
WatchersPids(order, ws, pr, map) ==
  IF order = <<>> THEN map
  ELSE LET id == Head(order)
           mine == IF InPidMap(ById(ws, id)) THEN { q[2] : q \in { x \in pr : x[1] = id } } ELSE {}
       IN  WatchersPids(Tail(order), ws, pr,
                        [x \in DOMAIN map \cup mine |-> IF x \in mine THEN id ELSE map[x]])

\* reap_processes is entered: the pid map is built
ReapBegin ==
  /\ initialized
  /\ reap.pc # "loop"
  /\ \E order \in IterWatchers(watchers, TRUE, addr) :
       reap' = [pc |-> "loop",
                map |-> WatchersPids(order, watchers, procs, <<>>),
                waits |-> <<>>, calls |-> <<>>,
                procs0 |-> procs,
                running0 |-> { w.id : w \in { x \in Range(watchers) : ~x.stopped } },
                gone |-> reap.gone]
  /\ UNCHANGED <<watchers, names, sockets, alive, cfg, initialized, last, adds, addr, procs, threads>>

\* the except clause with EAGAIN taken for any other error
AfterWaitNoRetry(r) ==
  IF r.kind = "none" THEN "returned"
  ELSE IF r.kind = "pid" THEN "loop"
  ELSE IF r.errno = "ECHILD" THEN "returned"
  ELSE "raised"

\* where one turn of the while loop leaves the call
AfterWait(r) ==
  IF r.kind = "none" THEN "returned"
  ELSE IF r.kind = "pid" THEN "loop"
  ELSE IF r.errno = "EAGAIN" THEN "loop"
  ELSE IF r.errno = "ECHILD" THEN "returned"
  ELSE "raised"

\* one turn of the while loop of reap_processes
ReapWait(r) ==
  /\ reap.pc = "loop"
  /\ Len(reap.waits) < MaxWaits
  /\ r.kind = "pid" => r.pid \notin reap.gone
  /\ LET hit == r.kind = "pid" /\ r.pid \in DOMAIN reap.map IN
       /\ reap' = [reap EXCEPT
                     !.pc = AfterWait(r),
                     !.waits = Append(@, r),
                     !.calls = IF hit
                               THEN Append(@, [w |-> reap.map[r.pid], pid |-> r.pid,
                                               status |-> r.status])
                               ELSE @,
                     !.gone = IF r.kind = "pid" THEN @ \cup {r.pid} ELSE @]
       /\ procs' = IF hit THEN procs \ { <<reap.map[r.pid], r.pid>> } ELSE procs
  /\ UNCHANGED <<watchers, names, sockets, alive, cfg, initialized, last, adds, addr, threads>>

\* an arbiter that is started and stopped, whose watchers spawn children,
\* and that reaps them
NextReap ==
  \/ Start
  \/ StopWatchers
  \/ \E pid \in Pids : Spawn(pid)
  \/ ReapBegin
  \/ \E r \in WaitResults : ReapWait(r)

ReapSpec == Init /\ [][NextReap]_vars

(* ---------------- the tick, stop() and rm_watcher() in threads ---------------- *)

\* one call made on a watcher, or the entry into a tick, in the order made
Did(ev, id) == [ev |-> ev, w |-> id]

\* manage_watchers is entered:  if not self.alive: return
TickBegin ==
  /\ initialized
  /\ tick.pc = "idle"
  /\ tick.n < MaxTicks
  /\ tick' = [tick EXCEPT !.pc = IF alive THEN "checked" ELSE "idle", !.n = @ + 1]
  /\ hist' = Append(hist, Did("tick", NoId))
  /\ UNCHANGED <<watchers, names, sockets, alive, cfg, initialized, last, adds, addr,
                 reaping, stopper, remover, lock>>

\* with self._lock:
TickAcquire ==
  /\ tick.pc = "checked"
  /\ lock = "free"
  /\ lock' = "tick"
  /\ tick' = [tick EXCEPT !.pc = "locked"]
  /\ UNCHANGED <<watchers, names, sockets, alive, cfg, initialized, last, adds, addr,
                 reaping, stopper, remover, hist>>

\* self.reap_processes(), then the for loop is entered: iter_watchers sorts
\* a copy of self.watchers
TickIter ==
  /\ tick.pc = "locked"
  /\ \E order \in IterWatchers(watchers, TRUE, addr) :
       tick' = [tick EXCEPT !.pc = "managing", !.todo = order]
  /\ UNCHANGED <<watchers, names, sockets, alive, cfg, initialized, last, adds, addr,
                 reaping, stopper, remover, lock, hist>>

\* watcher.manage_processes() on the next watcher of the copy
TickManage ==
  /\ tick.pc = "managing"
  /\ tick.todo # <<>>
  /\ hist' = Append(hist, Did("manage", Head(tick.todo)))
  /\ tick' = [tick EXCEPT !.todo = Tail(@)]
  /\ UNCHANGED <<watchers, names, sockets, alive, cfg, initialized, last, adds, addr,
                 reaping, stopper, remover, lock>>

\* the with block is left
TickRelease ==
  /\ tick.pc = "managing"
  /\ tick.todo = <<>>
  /\ lock' = "free"
  /\ tick' = [tick EXCEPT !.pc = "idle"]
  /\ UNCHANGED <<watchers, names, sockets, alive, cfg, initialized, last, adds, addr,
                 reaping, stopper, remover, hist>>

\* stop() is entered:  if self.alive
StopEnter ==
  /\ initialized
  /\ stopper.pc = "idle"
  /\ stopper' = [stopper EXCEPT !.pc = IF alive THEN "stop_watchers" ELSE "closing"]
  /\ UNCHANGED <<watchers, names, sockets, alive, cfg, initialized, last, adds, addr,
                 reaping, tick, remover, lock, hist>>

\* stop_watchers(stop_alive=True):  if not self.alive: return;  self.alive = False
StopFlag ==
  /\ stopper.pc = "stop_watchers"
  /\ IF ~alive
     THEN stopper' = [stopper EXCEPT !.pc = "closing"] /\ UNCHANGED alive
     ELSE stopper' = [stopper EXCEPT !.pc = "flagged"] /\ alive' = FALSE
  /\ UNCHANGED <<watchers, names, sockets, cfg, initialized, last, adds, addr,
                 reaping, tick, remover, lock, hist>>

\* the for loop of stop_watchers is entered
StopIter ==
  /\ stopper.pc = "flagged"
  /\ \E order \in IterWatchers(watchers, FALSE, addr) :
       stopper' = [stopper EXCEPT !.pc = "stopping", !.todo = order]
  /\ UNCHANGED <<watchers, names, sockets, alive, cfg, initialized, last, adds, addr,
                 reaping, tick, remover, lock, hist>>

\* watcher.stop() on the next watcher; after the last one the loop is left
StopOne ==
  /\ stopper.pc = "stopping"
  /\ IF stopper.todo = <<>>
     THEN /\ stopper' = [stopper EXCEPT !.pc = "closing"]
          /\ UNCHANGED <<watchers, hist>>
     ELSE /\ watchers' = SetStopped(watchers, {Head(stopper.todo)}, TRUE)
          /\ hist' = Append(hist, Did("stop", Head(stopper.todo)))
          /\ stopper' = [stopper EXCEPT !.todo = Tail(@)]
  /\ UNCHANGED <<names, sockets, alive, cfg, initialized, last, adds, addr,
                 reaping, tick, remover, lock>>

\* self.loop.stop();  self.sockets.close_all()
StopClose ==
  /\ stopper.pc = "closing"
  /\ sockets' = { [s EXCEPT !.bound = FALSE] : s \in sockets }
  /\ stopper' = [stopper EXCEPT !.pc = "done"]
  /\ UNCHANGED <<watchers, names, alive, cfg, initialized, last, adds, addr,
                 reaping, tick, remover, lock, hist>>

\* rm_watcher(name):  watcher = self._watchers_names.pop(name)
RmPop(name) ==
  /\ initialized
  /\ remover.pc = "idle"
  /\ IF name \notin DOMAIN names
     THEN remover' = [remover EXCEPT !.pc = "done"] /\ UNCHANGED names
     ELSE /\ remover' = [pc |-> "popped", id |-> names[name]]
          /\ names' = Del(names, name)
  /\ UNCHANGED <<watchers, sockets, alive, cfg, initialized, last, adds, addr,
                 reaping, tick, stopper, lock, hist>>

\* del self.watchers[self.watchers.index(watcher)]
RmDel ==
  /\ remover.pc = "popped"
  /\ watchers' = RemoveId(watchers, remover.id)
  /\ addr' = SelectSeq(addr, LAMBDA x : x # remover.id)
  /\ hist' = Append(hist, Did("removed", remover.id))
  /\ remover' = [remover EXCEPT !.pc = "deleted"]
  /\ UNCHANGED <<names, sockets, alive, cfg, initialized, last, adds,
                 reaping, tick, stopper, lock>>

\* watcher.stop()
RmStop ==
  /\ remover.pc = "deleted"
  /\ hist' = Append(hist, Did("rm_stop", remover.id))
  /\ remover' = [remover EXCEPT !.pc = "done"]
  /\ UNCHANGED <<watchers, names, sockets, alive, cfg, initialized, last, adds, addr,
                 reaping, tick, stopper, lock>>

\* the arbiter runs in its thread; the host calls stop() and the controller
\* rm_watcher while the periodic callback ticks
NextThreads ==
  \/ Start
  \/ TickBegin
  \/ TickAcquire
  \/ TickIter
  \/ TickManage
  \/ TickRelease
  \/ StopEnter
  \/ StopFlag
  \/ StopIter
  \/ StopOne
  \/ StopClose
  \/ \E n \in CallNames : RmPop(n)
  \/ RmDel
  \/ RmStop

ThreadSpec == Init /\ [][NextThreads]_vars

(* ---------------- properties ---------------- *)

NamesOf(S) == { e.name : e \in S }

\* some call of one of the kinds was made on the watcher object id
CalledOn(log, kinds, id) == \E i \in 1..Len(log) : log[i].ev \in kinds /\ log[i].w = id

\* reload_from_config(c) called in the current state
Reloads(c) == ReloadOutcomes(watchers, names, sockets, cfg, addr, c)

Registered(ws, nm, id) ==
  /\ id \in Ids(ws)
  /\ Lower(ById(ws, id).name) \in DOMAIN nm
  /\ nm[Lower(ById(ws, id).name)] = id

\* C1: after initialize(), a watcher is in `watchers` exactly when
\* `_watchers_names` maps its lowercased name to that same watcher.
C1_TablesConsistent ==
  initialized =>
    /\ \A id \in Ids(watchers) : Registered(watchers, names, id)
    /\ \A k \in DOMAIN names :
         names[k] \in Ids(watchers) /\ Lower(ById(watchers, names[k]).name) = k

\* C2: add_watcher(n) with a name that a registered watcher already uses,
\* letter case ignored, fails with AlreadyExist and changes neither table.
C2_AddExistingFails ==
  [][ ( /\ last'.op = "add_watcher"
        /\ \E w \in Range(watchers) : Lower(w.name) = Lower(last'.name) )
      => ( /\ last'.res = "AlreadyExist"
           /\ watchers' = watchers
           /\ names' = names ) ]_vars

\* C3: a reload whose config removes a socket s but keeps a watcher whose cmd
\* uses s fails with the conflict error and leaves the sockets and the
\* watcher tables as they were.
C3_OrphaningRefused ==
  initialized =>
    \A c \in Configs :
      ( /\ ~ArbiterChanged(c, cfg)
        /\ \E s \in sockets : \E w \in Range(watchers) :
             /\ Uses(w.cmd, s.name)
             /\ s.name \notin NamesOf(c.sockets)
             /\ w.name \in NamesOf(c.watchers) )
      => \A o \in Reloads(c) :
           /\ o.res = "ValueError"
           /\ o.sockets = sockets
           /\ o.watchers = watchers
           /\ o.names = names

\* C4: once alive is false, no manage_watchers, stop_watchers, restart or stop
\* call starts a watcher, reaps, or manages processes.
C4_NoStartOnceStopped ==
  (~alive /\ last.op \in {"manage_watchers", "stop_watchers", "restart", "stop"}) =>
    \A i \in 1..Len(last.log) :
      last.log[i].ev \notin {"start", "reap_processes", "manage_processes"}

\* C5: every socket named in the cmd of a registered, non-stopped watcher is
\* in the registry and listening.
C5_ReferencedSocketsListen ==
  initialized =>
    \A w \in Range(watchers) :
      ~w.stopped =>
        \A n \in w.cmd : \E s \in sockets : Lower(s.name) = n /\ s.bound

\* C6: a reload whose config differs for a registered watcher only in
\* numprocesses keeps the same watcher object registered, does not stop it,
\* and sets its numprocesses to the new value.
C6_NumprocessesOnlyKeepsObject ==
  initialized =>
    \A c \in Configs : \A w \in Range(watchers) :
      ( /\ ~ArbiterChanged(c, cfg)
        /\ ChangedSocketNames(sockets, c) = {}
        /\ Registered(watchers, names, w.id)
        /\ w.name \in NamesOf(c.watchers)
        /\ GetWatcherConfig(c, w.name).numprocesses # w.numprocesses
        /\ WatcherCfg2Dict([GetWatcherConfig(c, w.name)
                              EXCEPT !.numprocesses = w.numprocesses]) = w.cfg )
      => \A o \in Reloads(c) :
           o.res = "ok" =>
             /\ Registered(o.watchers, o.names, w.id)
             /\ ~CalledOn(o.log, {"stop", "remove"}, w.id)
             /\ ById(o.watchers, w.id).numprocesses
                  = GetWatcherConfig(c, w.name).numprocesses

\* C7: a reload that changes the config of a socket s used by a kept watcher w
\* completes without error, with s closed and bound again on the new config,
\* w stopped and started again, and one registered watcher named w.
C7_SocketChangeCascades ==
  initialized =>
    \A c \in Configs : \A w \in Range(watchers) :
      ( /\ ~ArbiterChanged(c, cfg)
        /\ Registered(watchers, names, w.id)
        /\ w.name \in NamesOf(c.watchers)
        /\ \E n \in ChangedSocketNames(sockets, c) : Uses(w.cmd, n) )
      => \A o \in Reloads(c) :
           /\ o.res = "ok"
           /\ \A n \in ChangedSocketNames(sockets, c) :
                /\ \E i \in 1..Len(o.log) : o.log[i].ev = "close" /\ o.log[i].s = n
                /\ \E s \in o.sockets :
                     /\ s.name = n /\ s.bound
                     /\ s.cfg = SocketCfg2Dict(GetSocketConfig(c, n))
           /\ CalledOn(o.log, {"stop"}, w.id)
           /\ Cardinality({ i \in 1..Len(o.watchers) : o.watchers[i].name = w.name }) = 1
           /\ \E x \in Range(o.watchers) : x.name = w.name /\ ~x.stopped

\* C8: after a reload_from_config(c) that returned without error, a second
\* reload_from_config(c) makes no call on any socket or watcher and leaves
\* the sockets and the watcher tables as they are.
C8_SecondReloadNoOp ==
  initialized =>
    \A c \in Configs : \A o1 \in Reloads(c) :
      o1.res = "ok" =>
        \A o2 \in ReloadOutcomes(o1.watchers, o1.names, o1.sockets, o1.cfg, o1.addr, c) :
          /\ o2.log = <<>>
          /\ o2.watchers = o1.watchers
          /\ o2.names = o1.names
          /\ o2.sockets = o1.sockets

\* a reload through the diff path returned without error and made no call,
\* on watchers that an earlier reload of the same file added and started
C8_Witness ==
  /\ last.op = "reload_from_config" /\ last.name = "diff"
  /\ last.res = "ok" /\ last.log = <<>>
  /\ Len(watchers) = 2
  /\ \A w \in Range(watchers) : ~w.stopped
  /\ \E c \in Configs :
       /\ ~ArbiterChanged(c, cfg)
       /\ c.sockets # {}
       /\ { w.cfg : w \in Range(watchers) } = { WatcherCfg2Dict(e) : e \in c.watchers }
       /\ { s.cfg : s \in sockets } = { SocketCfg2Dict(e) : e \in c.sockets }

\* C9: when the [circus] section differs from the stored cfg, the reload runs
\* none of the per-socket and per-watcher steps, and afterwards the arbiter's
\* watchers, sockets and stored cfg are those of the new config.
C9_FullReload ==
  initialized =>
    \A c \in Configs :
      ArbiterChanged(c, cfg) =>
        \A o \in Reloads(c) :
          /\ o.log = <<>>
          /\ { w.name : w \in Range(o.watchers) }
               = { w.name : w \in Range(LoadFromConfig(c).watchers) }
          /\ { x.name : x \in o.sockets } = { x.name : x \in LoadFromConfig(c).sockets }
          /\ o.cfg = Cfg2Dict(c)

\* C10: in a reload that adds or deletes other watchers, a watcher whose name
\* is in the new config with an unchanged config, and which uses no changed
\* socket, is neither stopped nor started and stays the registered object.
C10_UnchangedUntouched ==
  initialized =>
    \A c \in Configs : \A w \in Range(watchers) :
      ( /\ w.name \in NamesOf(c.watchers)
        /\ WatcherCfg2Dict(GetWatcherConfig(c, w.name)) = w.cfg
        /\ ~\E n \in ChangedSocketNames(sockets, c) : Uses(w.cmd, n) )
      => \A o \in Reloads(c) :
           (\E i \in 1..Len(o.log) :
              o.log[i].ev \in {"add", "remove"} /\ o.log[i].w # w.id /\ o.log[i].w # NoId)
           => /\ ~CalledOn(o.log, {"stop", "start", "remove", "add"}, w.id)
              /\ w \in Range(o.watchers)
              /\ \A k \in DOMAIN names :
                   names[k] = w.id => k \in DOMAIN o.names /\ o.names[k] = w.id

\* a reload added another watcher next to a registered one that it left alone
C10_Witness ==
  /\ last.op = "reload_from_config" /\ last.res = "ok"
  /\ \E w \in Range(watchers) :
       /\ w.cfg # NoCfg
       /\ w.stopped
       /\ Registered(watchers, names, w.id)
       /\ ~CalledOn(last.log, {"stop", "start", "remove", "add"}, w.id)
       /\ \E i \in 1..Len(last.log) : last.log[i].ev = "add" /\ last.log[i].w # w.id


\* C11: add_watcher(n) for a name n that no watcher uses in any letter case,
\* followed by rm_watcher(n), succeeds and leaves `watchers` and
\* `_watchers_names` (and so numwatchers) as they were before the add.
C11_AddRmRoundTrip ==
  [][ ( /\ last.op = "add_watcher" /\ last.res = "ok" /\ last.log # <<>>
        /\ \A i \in 1..(Len(watchers) - 1) :
             Lower(watchers[i].name) # Lower(last.name)
        /\ last'.op = "rm_watcher" /\ last'.name = last.name )
      => ( /\ last'.res = "ok"
           /\ watchers' = SubSeq(watchers, 1, Len(watchers) - 1)
           /\ names' = Del(names, Lower(last.name)) ) ]_vars

\* C12: a reload_from_config that adds more than one watcher starts the added
\* watchers in decreasing priority order.
C12_ReloadStartsByPriority ==
  initialized =>
  \A c \in Configs : \A o \in Reloads(c) :
    \A i, j \in 1..Len(o.log) :
      (i < j /\ o.log[i].ev = "start" /\ o.log[j].ev = "start")
        => ById(o.watchers, o.log[i].w).priority >= ById(o.watchers, o.log[j].w).priority


\* the place of the object id in the list ws (its insertion order)
Index(ws, id) == CHOOSE i \in 1..Len(ws) : ws[i].id = id

\* the objects the calls of one kind in the log were made on, in call order
Visited(log, kind) ==
  LET sel == SelectSeq(log, LAMBDA e : e.ev = kind)
  IN  [i \in 1..Len(sel) |-> sel[i].w]

Reverse(s) == [i \in 1..Len(s) |-> s[Len(s) + 1 - i]]

\* C13: start(), start_watchers() and reload() visit the watchers in
\* decreasing priority order, watchers of equal priority in insertion order.
C13_StartOrder ==
  \A kind \in {"start", "reload"} :
    last.op \in {"start", "start_watchers", "reload"} =>
      LET v == Visited(last.log, kind) IN
        \A i, j \in 1..Len(v) :
          i < j =>
            \/ ById(watchers, v[i]).priority > ById(watchers, v[j]).priority
            \/ /\ ById(watchers, v[i]).priority = ById(watchers, v[j]).priority
               /\ Index(watchers, v[i]) < Index(watchers, v[j])

\* C14: stop_watchers() stops the watchers in increasing priority order, and
\* its stop sequence is the exact reverse of the sequence start_watchers()
\* makes on the same table, watchers of equal priority included.
C14_StopReversesStart ==
  (last.op = "stop_watchers" /\ last.log # <<>>) =>
    LET v == Visited(last.log, "stop") IN
      /\ \A i, j \in 1..Len(v) :
           i < j => ById(watchers, v[i]).priority <= ById(watchers, v[j]).priority
      /\ \A order \in IterWatchers(watchers, TRUE, addr) :
           v = Reverse(Visited(StartWatchersResult(watchers, order).log, "start"))

\* stop_watchers() ran on a table with two watchers of the same priority
C14_Witness ==
  /\ last.op = "stop_watchers"
  /\ Len(last.log) >= 2
  /\ \E x, y \in Range(watchers) : x.id # y.id /\ x.priority = y.priority

\* C15: alive changes only from true to false and only in stop(), so at
\* most once and at the first stop(); every stop() leaves it false; and a
\* stop() on an arbiter that is not alive stops no watcher and leaves alive,
\* both watcher tables and the sockets as they were.
C15_AliveOnceStopIdempotent ==
  [][ /\ (alive' # alive) => (alive /\ ~alive' /\ last'.op = "stop")
      /\ (last'.op = "stop") => ~alive'
      /\ (~alive /\ last'.op = "stop") =>
           /\ Visited(last'.log, "stop") = <<>>
           /\ UNCHANGED <<alive, watchers, names, sockets>> ]_vars

\* a second stop(): the arbiter holds watchers and none of them was stopped
C15_Witness ==
  /\ last.op = "stop"
  /\ ~alive
  /\ watchers # <<>>
  /\ Visited(last.log, "stop") = <<>>


\* C16: after a reload_from_config that took the diff path and returned
\* without error, the registered watcher names are the names of the new
\* config, each name has exactly one watcher object, and numwatchers is the
\* number of watchers in the config.
C16_ReloadMatchesConfig ==
  initialized =>
  \A c \in Configs : \A o \in Reloads(c) :
    (o.path = "diff" /\ o.res = "ok") =>
      /\ { w.name : w \in Range(o.watchers) } = NamesOf(c.watchers)
      /\ DOMAIN o.names = { Lower(n) : n \in NamesOf(c.watchers) }
      /\ \A i, j \in 1..Len(o.watchers) :
           o.watchers[i].name = o.watchers[j].name => i = j
      /\ Len(o.watchers) = Cardinality(c.watchers)


\* C17: reap_processes returns without error when the wait raises ECHILD and
\* when it returns pid 0; on EAGAIN it waits again instead of returning or
\* raising; any other OS error propagates to the caller.
C17_ReapErrorHandling ==
  reap.waits # <<>> =>
    LET r == reap.waits[Len(reap.waits)] IN
      /\ (r.kind = "error" /\ r.errno = "ECHILD") => reap.pc = "returned"
      /\ r.kind = "none" => reap.pc = "returned"
      /\ (r.kind = "error" /\ r.errno = "EAGAIN") => reap.pc = "loop"
      /\ (r.kind = "error" /\ r.errno \notin {"EAGAIN", "ECHILD"}) => reap.pc = "raised"
      /\ \A k \in 1..(Len(reap.waits) - 1) :
           reap.waits[k].kind = "pid" \/ reap.waits[k].errno = "EAGAIN"

\* the wait raised EAGAIN and was called again
C17_Witness ==
  /\ Len(reap.waits) >= 2
  /\ reap.waits[1].errno = "EAGAIN"
  /\ reap.waits[2].errno = "ECHILD"
  /\ reap.pc = "returned"

\* C18: in one reap_processes call, every pid the wait returns that belongs
\* to a watcher that was not stopped when the call began is passed, with its
\* status, to reap_process of exactly that watcher exactly once; a returned
\* pid of no such watcher causes no reap_process call.
C18_ReapDispatch ==
  reap.pc # "idle" =>
    /\ \A k \in 1..Len(reap.waits) :
         reap.waits[k].kind = "pid" =>
           LET p == reap.waits[k].pid
               owners == { id \in reap.running0 : <<id, p>> \in reap.procs0 }
               made == { i \in 1..Len(reap.calls) : reap.calls[i].pid = p }
           IN  /\ \A i \in made : reap.calls[i].w \in owners
                                  /\ reap.calls[i].status = reap.waits[k].status
               /\ \A id \in owners :
                    Cardinality({ i \in made : reap.calls[i].w = id }) = 1
    /\ \A i \in 1..Len(reap.calls) :
         \E k \in 1..Len(reap.waits) :
           reap.waits[k].kind = "pid" /\ reap.waits[k].pid = reap.calls[i].pid

\* one call reaped a child of a running watcher and a child that no running
\* watcher owns
C18_Witness ==
  /\ Len(reap.calls) = 1
  /\ \E k \in 1..Len(reap.waits) :
       /\ reap.waits[k].kind = "pid"
       /\ reap.waits[k].pid # reap.calls[1].pid
  /\ reap.pc = "returned"


\* C19: under every interleaving of a manage_watchers tick with a stop()
\* called from another thread, manage_processes is never invoked on a
\* watcher after stop() has set alive to false and stopped that watcher.
C19_NoManageAfterStop ==
  \A i, j \in 1..Len(hist) :
    (i < j /\ hist[i].ev = "stop") => ~(hist[j].ev = "manage" /\ hist[j].w = hist[i].w)

\* C20: rm_watcher removes the watcher from `_watchers_names` and from
\* `watchers` before it calls stop() on it, and a manage_watchers tick that
\* begins after the removal never calls manage_processes on that watcher.
C20_NoManageAfterRemoval ==
  /\ \A i, j \in 1..Len(hist) :
       (hist[i].ev = "removed" /\ hist[j].ev = "rm_stop" /\ hist[i].w = hist[j].w) => i < j
  /\ \A i \in 1..Len(hist) : hist[i].ev = "removed" =>
       hist[i].w \notin Ids(watchers) /\ \A k \in DOMAIN names : names[k] # hist[i].w
  /\ \A i, j, k \in 1..Len(hist) :
       ( /\ i < j /\ j < k
         /\ hist[i].ev = "removed"
         /\ hist[j].ev = "tick"
         /\ hist[k].ev = "manage" )
       => hist[k].w # hist[i].w

\* a tick that began after a removal has managed the watchers that are left
C20_Witness ==
  \E i, j, k \in 1..Len(hist) :
    /\ i < j /\ j < k
    /\ hist[i].ev = "removed"
    /\ hist[j].ev = "tick"
    /\ hist[k].ev = "manage"
    /\ tick.pc = "idle"


\* C21: whenever reload_from_config fails because a watcher references a
\* deleted socket, no watcher has been stopped, started, removed from or
\* added to `watchers` or `_watchers_names` by that call.
C21_OrphanFailsBeforeWatcherMutation ==
  initialized =>
  \A c \in Configs : \A o \in Reloads(c) :
    o.res = "ValueError" =>
      /\ o.watchers = watchers
      /\ o.names = names
      /\ \A i \in 1..Len(o.log) :
           o.log[i].w # NoId => o.log[i].ev \notin {"stop", "start", "remove", "add"}

\* a reload has failed on a deleted socket that a watcher uses, on an arbiter
\* that holds another watcher the config leaves out
C21_Witness ==
  /\ last.op = "reload_from_config"
  /\ last.res = "ValueError"
  /\ \E i \in 1..Len(last.log) : last.log[i].ev = "close"
  /\ Len(watchers) >= 2


\* the arbiter is as load_from_config(c) and initialize() leave it
BuiltFrom(c) ==
  /\ last.op = "initialize"
  /\ watchers = LoadFromConfig(c).watchers
  /\ { [s EXCEPT !.bound = FALSE] : s \in sockets } = LoadFromConfig(c).sockets
  /\ cfg = Cfg2Dict(c)

\* C22: for an arbiter built by load_from_config(P) and initialised,
\* reload_from_config(P) does not fail and keeps every watcher and socket
\* the arbiter made itself from its [circus] section: none of them is
\* stopped, closed or removed.
C22_ReloadKeepsMaterialised ==
  \A c \in Configs : BuiltFrom(c) =>
    \A o \in Reloads(c) :
      /\ o.res = "ok"
      /\ \A w \in Range(watchers) : w.cfg = NoCfg =>
           /\ w \in Range(o.watchers)
           /\ ~CalledOn(o.log, {"stop", "remove"}, w.id)
      /\ \A s \in sockets : s.cfg = NoCfg =>
           /\ s \in o.sockets
           /\ \A i \in 1..Len(o.log) :
                o.log[i].s = s.name => o.log[i].ev \notin {"close", "remove"}

====
